---- MODULE Spec2Model ----
(***************************************************************************)
(* SQL validation engine of fonz/spectacles: selector parsing, hierarchy   *)
(* building (SqlValidator.build_project) and the asyncio driven validation *)
(* pass (SqlValidator.validate).                                            *)
(*                                                                         *)
(* Python strings are modelled as sequences of one-character strings, so   *)
(* that str.split and the f-string paths are computed, not assumed.        *)
(***************************************************************************)
EXTENDS Integers, Sequences, FiniteSets, TLC

None == <<>>
Some(v) == <<v>>

NoException == [exc |-> "None"]

Range(s) == {s[i] : i \in 1..Len(s)}

(***************************************************************************)
(* Bounds of the explored input space.                                     *)
(***************************************************************************)
MaxSelectors == 2
MaxExplores == 2
MaxDims == 3
MaxFairExplores == 1
MaxFairDims == 2

(***************************************************************************)
(* Input alphabets.                                                        *)
(***************************************************************************)
ProjectName == <<"p">>
OtherProject == <<"q">>
BaseUrl == <<"h">>
ModelSeq == << <<"a">>, <<"b">> >>
ExploreSeq == << <<"x">>, <<"y">>, <<"w">> >>
DimensionSeq == << <<"d">>, <<"e">>, <<"f">>, <<"g">> >>

(***************************************************************************)
(* str.split(".")                                                          *)
(***************************************************************************)
RECURSIVE split(_, _)
split(s, sep) ==
    IF s = <<>> THEN << <<>> >>
    ELSE LET rest == split(Tail(s), sep)
         IN  IF Head(s) = sep
             THEN << <<>> >> \o rest
             ELSE << <<Head(s)>> \o Head(rest) >> \o Tail(rest)

(***************************************************************************)
(* selection[model].add(explore) on a defaultdict(set)                     *)
(***************************************************************************)
selection_get(selection, key) ==
    IF key \in DOMAIN selection THEN selection[key] ELSE {}

(* selection_update that assigns the names instead of adding them. *)
selection_assign(selection, key, names) ==
    [k \in (DOMAIN selection) \cup {key} |->
        IF k = key THEN names ELSE selection[k]]

selection_update(selection, key, names) ==
    [k \in (DOMAIN selection) \cup {key} |->
        IF k = key THEN selection_get(selection, key) \cup names
        ELSE selection[k]]

selection_pop(selection, key) ==
    [k \in (DOMAIN selection) \ {key} |-> selection[k]]

(***************************************************************************)
(* SqlValidator.parse_selectors                                            *)
(***************************************************************************)
RECURSIVE parse_selectors_from(_, _)
parse_selectors_from(selectors, selection) ==
    IF selectors = <<>>
    THEN [raised |-> NoException, selection |-> selection]
    ELSE LET selector == Head(selectors)
             parts == split(selector, ".")
         IN  IF Len(parts) # 2
             THEN [raised |-> [exc |-> "FonzException",
                               raised_in |-> "parse_selectors",
                               selector |-> selector],
                   selection |-> <<>>]
             ELSE parse_selectors_from(
                      Tail(selectors),
                      selection_update(selection, parts[1], {parts[2]}))

parse_selectors(selectors) == parse_selectors_from(selectors, <<>>)

(***************************************************************************)
(* fonz.lookml constructors: every node starts without error.              *)
(***************************************************************************)
Dimension_from_json(json) ==
    [name |-> json.name, url |-> json.url, ignore |-> json.ignore,
     errored |-> FALSE, error |-> None]

Explore_from_json(name) ==
    [class |-> "Explore", name |-> name, dimensions |-> <<>>,
     errored |-> FALSE, error |-> None]

Model_from_json(json) ==
    [class |-> "Model", name |-> json.name, project |-> json.project,
     explores |-> [i \in 1..Len(json.explores) |->
                      Explore_from_json(json.explores[i])],
     errored |-> FALSE]

Star == <<"*">>

names_of(nodes) == {nodes[i].name : i \in 1..Len(nodes)}

(***************************************************************************)
(* SqlValidator._select                                                    *)
(***************************************************************************)
(* _select returning the selected nodes in reverse order of select_from. *)
_select_reversed(choices, select_from) ==
    LET difference == choices \ names_of(select_from)
        selected == SelectSeq(select_from, LAMBDA each : each.name \in choices)
    IN  IF difference # {}
        THEN IF select_from = <<>>
             THEN [raised |-> [exc |-> "IndexError", raised_in |-> "_select"],
                   selected |-> <<>>]
             ELSE [raised |-> [exc |-> "FonzException",
                               raised_in |-> "_select",
                               class |-> select_from[1].class,
                               plural |-> Cardinality(difference) # 1,
                               names |-> difference,
                               project |-> ProjectName],
                   selected |-> <<>>]
        ELSE [raised |-> NoException,
              selected |-> [i \in 1..Len(selected) |->
                               selected[Len(selected) + 1 - i]]]

_select(choices, select_from) ==
    LET difference == choices \ names_of(select_from)
    IN  IF difference # {}
        THEN IF select_from = <<>>
             THEN [raised |-> [exc |-> "IndexError", raised_in |-> "_select"],
                   selected |-> <<>>]
             ELSE [raised |-> [exc |-> "FonzException",
                               raised_in |-> "_select",
                               class |-> select_from[1].class,
                               plural |-> Cardinality(difference) # 1,
                               names |-> difference,
                               project |-> ProjectName],
                   selected |-> <<>>]
        ELSE [raised |-> NoException,
              selected |-> SelectSeq(select_from,
                                     LAMBDA each : each.name \in choices)]

(***************************************************************************)
(* build_project, lines 110-115: model level wildcard                      *)
(***************************************************************************)
(* expand_model_wildcard that overwrites a model's explicit selection. *)
expand_model_wildcard_replace(selection, project_models) ==
    IF Star \in DOMAIN selection
    THEN LET explore_names == selection[Star]
             popped == selection_pop(selection, Star)
             names == names_of(project_models)
         IN  [k \in (DOMAIN popped) \cup names |->
                 IF k \in names THEN explore_names ELSE popped[k]]
    ELSE selection

expand_model_wildcard(selection, project_models) ==
    IF Star \in DOMAIN selection
    THEN LET explore_names == selection[Star]
             popped == selection_pop(selection, Star)
             names == names_of(project_models)
         IN  [k \in (DOMAIN popped) \cup names |->
                 IF k \in names
                 THEN selection_get(popped, k) \cup explore_names
                 ELSE popped[k]]
    ELSE selection

(***************************************************************************)
(* build_project, lines 122-128: explore level wildcard                    *)
(***************************************************************************)
(* expand_explore_wildcard where explicit names beside the wildcard win. *)
expand_explore_wildcard_explicit(selected_explore_names, model) ==
    IF selected_explore_names = {Star}
    THEN names_of(model.explores)
    ELSE selected_explore_names \ {Star}

expand_explore_wildcard(selected_explore_names, model) ==
    IF Star \in selected_explore_names
    THEN (selected_explore_names \ {Star}) \cup names_of(model.explores)
    ELSE selected_explore_names

(***************************************************************************)
(* build_project, lines 134-140: fetch and attach the dimensions           *)
(***************************************************************************)
(* add_dimensions without the test of dimension.ignore. *)
add_dimensions_all(explore, dimensions_json) ==
    LET dimensions == [i \in 1..Len(dimensions_json) |->
                          LET dimension == Dimension_from_json(dimensions_json[i])
                          IN  [dimension EXCEPT !.url = BaseUrl \o dimension.url]]
    IN  [explore EXCEPT !.dimensions = explore.dimensions \o dimensions]

add_dimensions(explore, dimensions_json) ==
    LET dimensions == [i \in 1..Len(dimensions_json) |->
                          LET dimension == Dimension_from_json(dimensions_json[i])
                          IN  [dimension EXCEPT !.url = BaseUrl \o dimension.url]]
    IN  [explore EXCEPT !.dimensions =
            explore.dimensions \o
            SelectSeq(dimensions, LAMBDA dimension : ~dimension.ignore)]

get_models_call == [op |-> "get_models", model |-> <<>>, explore |-> <<>>]

get_dimensions_call(model, explore) ==
    [op |-> "get_dimensions", model |-> model.name, explore |-> explore.name]

(***************************************************************************)
(* build_project, lines 121-142: the loop over the selected models.        *)
(* done holds the models already processed, calls the service calls made.  *)
(***************************************************************************)
RECURSIVE build_models(_, _, _, _, _)
build_models(selected_models, selection, get_dimensions, done, calls) ==
    IF selected_models = <<>>
    THEN [raised |-> NoException, models |-> done, calls |-> calls]
    ELSE LET model == Head(selected_models)
             selected_explore_names ==
                 expand_explore_wildcard(selection[model.name], model)
             sel == _select(selected_explore_names, model.explores)
         IN  IF sel.raised.exc # "None"
             THEN [raised |-> sel.raised, models |-> <<>>, calls |-> calls]
             ELSE LET selected_explores ==
                          [i \in 1..Len(sel.selected) |->
                              add_dimensions(
                                  sel.selected[i],
                                  get_dimensions[<<model.name,
                                                   sel.selected[i].name>>])]
                      new_calls ==
                          [i \in 1..Len(sel.selected) |->
                              get_dimensions_call(model, sel.selected[i])]
                  IN  build_models(
                          Tail(selected_models), selection, get_dimensions,
                          Append(done, [model EXCEPT !.explores = selected_explores]),
                          calls \o new_calls)

(***************************************************************************)
(* SqlValidator.build_project                                              *)
(***************************************************************************)
build_project(selectors, models_json, get_dimensions) ==
    LET parsed == parse_selectors(selectors)
    IN  IF parsed.raised.exc # "None"
        THEN [raised |-> parsed.raised, models |-> <<>>, calls |-> <<>>]
        ELSE LET all_models == [i \in 1..Len(models_json) |->
                                   Model_from_json(models_json[i])]
                 project_models ==
                     SelectSeq(all_models,
                               LAMBDA model : model.project = ProjectName)
                 selection ==
                     expand_model_wildcard(parsed.selection, project_models)
                 sel == _select(DOMAIN selection, project_models)
             IN  IF sel.raised.exc # "None"
                 THEN [raised |-> sel.raised, models |-> <<>>,
                       calls |-> <<get_models_call>>]
                 ELSE build_models(sel.selected, selection, get_dimensions,
                                   <<>>, <<get_models_call>>)

(* _get_error_from_api_result reading the last error of the payload. *)
_get_error_from_api_result_last(result) ==
    LET error == result.errors[Len(result.errors)]
    IN  [sql |-> result.sql,
         line_number |-> IF error.sql_error_loc # None
                         THEN Some(error.sql_error_loc[1].line - 1)
                         ELSE None,
         message |-> error.message_details]

(* _get_error_from_api_result without the correction of the line. *)
_get_error_from_api_result_uncorrected(result) ==
    LET error == result.errors[1]
    IN  [sql |-> result.sql,
         line_number |-> IF error.sql_error_loc # None
                         THEN Some(error.sql_error_loc[1].line)
                         ELSE None,
         message |-> error.message_details]

(***************************************************************************)
(* SqlValidator._get_error_from_api_result                                 *)
(***************************************************************************)
_get_error_from_api_result(result) ==
    LET error == result.errors[1]
    IN  [sql |-> result.sql,
         line_number |-> IF error.sql_error_loc # None
                         THEN Some(error.sql_error_loc[1].line - 1)
                         ELSE None,
         message |-> error.message_details]

(***************************************************************************)
(* The three branches on the API result in _query_explore and              *)
(* _query_dimension.                                                       *)
(***************************************************************************)
is_list(result) == result.type = "list"

has_errors(result) == result.type = "dict" /\ result.errors # <<>>

explore_path(model, explore) == model.name \o <<"/">> \o explore.name

dimension_path(model, dimension) == model.name \o <<"/">> \o dimension.name

(***************************************************************************)
(* _query_explore, lines 276-284: the error and the node writes            *)
(***************************************************************************)
explore_error(models, m, e, result) ==
    LET error_params == _get_error_from_api_result(result)
    IN  [path |-> explore_path(models[m], models[m].explores[e]),
         sql |-> error_params.sql,
         line_number |-> error_params.line_number,
         message |-> error_params.message,
         url |-> None]

(* mark_explore also flagging the dimensions of the explore. *)
mark_explore_dimensions(models, m, e, error) ==
    [models EXCEPT ![m].explores[e].error = Some(error),
                   ![m].explores[e].errored = TRUE,
                   ![m].explores[e].dimensions =
                       [d \in 1..Len(@) |-> [@[d] EXCEPT !.errored = TRUE]],
                   ![m].errored = TRUE]

(* A field of a node of the hierarchy; e and d are 0 where not applicable. *)
node_field(kind, m, e, d, field) ==
    [kind |-> kind, model |-> m, explore |-> e, dimension |-> d,
     field |-> field]

(* The node fields _query_explore assigns, lines 280-282. *)
explore_writes(m, e) ==
    {node_field("explore", m, e, 0, "error"),
     node_field("explore", m, e, 0, "errored"),
     node_field("model", m, 0, 0, "errored")}

mark_explore(models, m, e, error) ==
    [models EXCEPT ![m].explores[e].error = Some(error),
                   ![m].explores[e].errored = TRUE,
                   ![m].errored = TRUE]

(***************************************************************************)
(* _query_dimension, lines 311-320: the error and the node writes          *)
(***************************************************************************)
dimension_error(models, m, e, d, result) ==
    LET error_params == _get_error_from_api_result(result)
        dimension == models[m].explores[e].dimensions[d]
    IN  [path |-> dimension_path(models[m], dimension),
         sql |-> error_params.sql,
         line_number |-> error_params.line_number,
         message |-> error_params.message,
         url |-> Some(dimension.url)]

(* mark_dimension flagging every dimension of the explore. *)
mark_dimension_siblings(models, m, e, d, error) ==
    [models EXCEPT ![m].explores[e].dimensions =
                       [i \in 1..Len(@) |->
                           IF i = d
                           THEN [@[i] EXCEPT !.error = Some(error),
                                             !.errored = TRUE]
                           ELSE [@[i] EXCEPT !.errored = TRUE]],
                   ![m].explores[e].errored = TRUE,
                   ![m].errored = TRUE]

(* mark_dimension without the write to the model. *)
mark_dimension_no_model(models, m, e, d, error) ==
    [models EXCEPT ![m].explores[e].dimensions[d].error = Some(error),
                   ![m].explores[e].dimensions[d].errored = TRUE,
                   ![m].explores[e].errored = TRUE]

(* The node fields _query_dimension assigns, lines 315-318. *)
dimension_writes(m, e, d) ==
    {node_field("dimension", m, e, d, "error"),
     node_field("dimension", m, e, d, "errored"),
     node_field("explore", m, e, 0, "errored"),
     node_field("model", m, 0, 0, "errored")}

(* mark_dimension also storing the error on the explore, as _query_explore *)
(* does.                                                                   *)
mark_dimension_explore_error(models, m, e, d, error) ==
    [models EXCEPT ![m].explores[e].dimensions[d].error = Some(error),
                   ![m].explores[e].dimensions[d].errored = TRUE,
                   ![m].explores[e].error = Some(error),
                   ![m].explores[e].errored = TRUE,
                   ![m].errored = TRUE]

mark_dimension(models, m, e, d, error) ==
    [models EXCEPT ![m].explores[e].dimensions[d].error = Some(error),
                   ![m].explores[e].dimensions[d].errored = TRUE,
                   ![m].explores[e].errored = TRUE,
                   ![m].errored = TRUE]

(***************************************************************************)
(* validate, lines 199-200: the explores in traversal order                *)
(***************************************************************************)
RECURSIVE explore_positions_from(_, _)
explore_positions_from(models, m) ==
    IF m > Len(models) THEN <<>>
    ELSE [e \in 1..Len(models[m].explores) |-> <<m, e>>]
         \o explore_positions_from(models, m + 1)

explore_positions(models) == explore_positions_from(models, 1)

_count_explores(models) == Len(explore_positions(models))

(***************************************************************************)
(* _validate_explore, lines 163-173: the tasks created for one explore     *)
(***************************************************************************)
new_task(n, m, e, d, dimensions) ==
    [index |-> n, model |-> m, explore |-> e, dimension |-> d,
     dimensions |-> dimensions, state |-> "pending",
     result |-> None, error |-> None]

(* create_tasks leaving out the last dimension in per-dimension mode. *)
create_tasks_skip_last(models, n, m, e, is_batch) ==
    LET explore == models[m].explores[e]
    IN  IF is_batch
        THEN << new_task(n, m, e, 0,
                         [d \in 1..Len(explore.dimensions) |->
                             explore.dimensions[d].name]) >>
        ELSE [d \in 1..(Len(explore.dimensions) - 1) |->
                 new_task(n, m, e, d, <<explore.dimensions[d].name>>)]

create_tasks(models, n, m, e, is_batch) ==
    LET explore == models[m].explores[e]
    IN  IF is_batch
        THEN << new_task(n, m, e, 0,
                         [d \in 1..Len(explore.dimensions) |->
                             explore.dimensions[d].name]) >>
        ELSE [d \in 1..Len(explore.dimensions) |->
                 new_task(n, m, e, d, <<explore.dimensions[d].name>>)]

(***************************************************************************)
(* The remote service: its listings and its query results.                 *)
(***************************************************************************)
RECURSIVE Sum(_, _)
Sum(f, keys) ==
    IF keys = {} THEN 0
    ELSE LET k == CHOOSE x \in keys : TRUE
         IN  f[k] + Sum(f, keys \ {k})

RECURSIVE SeqSum(_)
SeqSum(q) == IF q = <<>> THEN 0 ELSE Head(q) + SeqSum(Tail(q))

Min(a, b) == IF a < b THEN a ELSE b

Prefix(q, n) == SubSeq(q, 1, Min(n, Len(q)))

model_json(name, project, explores) ==
    [name |-> name, project |-> project, explores |-> explores]

dimension_json(name, ignore) ==
    [name |-> name, url |-> <<"/">> \o name, ignore |-> ignore]

(* Listings of one project: a prefix of ModelSeq, total explores in all. *)
ListingsWithin(total) ==
    UNION {
        {[i \in 1..n |-> model_json(ModelSeq[i], ProjectName,
                                    Prefix(ExploreSeq, k[i]))] :
            k \in {kk \in [1..n -> 0..total] : SeqSum(kk) <= total}} :
        n \in 0..Len(ModelSeq)}

ValidateListings == ListingsWithin(MaxExplores)

DimensionListings ==
    UNION {
        {[i \in 1..j |-> dimension_json(DimensionSeq[i], ig[i])] :
            ig \in [1..j -> BOOLEAN]} :
        j \in 0..Min(MaxDims, Len(DimensionSeq))}

(* Dimension listings for the given explores, total dimensions in all. *)
DimensionListingsWithin(keys, total) ==
    {f \in [keys -> DimensionListings] :
        Sum([k \in keys |-> Len(f[k])], keys) <= total}

DimensionListingsFor(keys) == DimensionListingsWithin(keys, MaxDims)

all_keys(listing) ==
    UNION {{<<listing[i].name, listing[i].explores[j]>> :
               j \in 1..Len(listing[i].explores)} : i \in 1..Len(listing)}

(* The explores whose dimensions build_project asks for. *)
needed_keys(sels, listing) ==
    LET dry == build_project(sels, listing,
                             [k \in all_keys(listing) |-> <<>>])
    IN  {<<dry.calls[i].model, dry.calls[i].explore>> :
            i \in {c \in 1..Len(dry.calls) :
                      dry.calls[c].op = "get_dimensions"}}

error_1 == [message_details |-> <<"m", "1">>,
            sql_error_loc |-> Some([line |-> 42])]

error_2 == [message_details |-> <<"m", "2">>, sql_error_loc |-> None]

ListResult == [type |-> "list", errors |-> <<>>, sql |-> <<>>]

ErrorResults ==
    {[type |-> "dict", errors |-> es, sql |-> <<"S">>] :
        es \in {<<error_1, error_2>>, <<error_2, error_1>>}}

UnexpectedResults == {[type |-> "dict", errors |-> <<>>, sql |-> <<>>]}

ApiResults == {ListResult} \cup ErrorResults \cup UnexpectedResults

(***************************************************************************)
(* State.                                                                  *)
(*   selectors, batch, concurrency  arguments of Runner.validate_sql       *)
(*   models_json, dimensions_json   what the service lists                 *)
(*   pc                "start", "built", "build_failed", "done", "aborted" *)
(*   raised            the exception raised, NoException if none           *)
(*   calls             listing calls made to the service                   *)
(*   models            self.project.models                                 *)
(*   index             validate's index                                    *)
(*   tasks             every query task created so far                     *)
(*   loop              "idle", "running", "failed" (a task raised and the  *)
(*                     exception is set on the gather future), "stopped"   *)
(*   validation_errors validate's list                                     *)
(*   returned          what validate returned                              *)
(***************************************************************************)
VARIABLES selectors, batch, concurrency, models_json, dimensions_json,
          pc, raised, calls, models, index, tasks, loop,
          validation_errors, returned

vars == <<selectors, batch, concurrency, models_json, dimensions_json,
          pc, raised, calls, models, index, tasks, loop,
          validation_errors, returned>>

inputs == <<selectors, batch, concurrency, models_json, dimensions_json>>

Constructed ==
    /\ pc = "start"
    /\ raised = NoException
    /\ calls = <<>>
    /\ models = <<>>
    /\ index = 0
    /\ tasks = <<>>
    /\ loop = "idle"
    /\ validation_errors = <<>>
    /\ returned = None

AllSelector == <<"*", ".", "*">>

Init ==
    /\ selectors = <<AllSelector>>
    /\ batch \in BOOLEAN
    /\ concurrency = 1
    /\ models_json \in ValidateListings
    /\ dimensions_json \in
           DimensionListingsFor(needed_keys(selectors, models_json))
    /\ Constructed

(***************************************************************************)
(* Inputs for the selection side: any selectors, listings in any order     *)
(* with models of another project, one fixed dimension listing.            *)
(***************************************************************************)
Selectors ==
    {<<"a", ".", "x">>, <<"a", ".", "y">>, <<"a", ".", "*">>,
     <<"b", ".", "x">>, <<"b", ".", "q">>, <<"z", ".", "x">>,
     <<"*", ".", "x">>, <<"*", ".", "*">>,
     <<"a">>, <<"a", ".", "x", ".", "y">>, <<".", "x">>, <<"a", ".">>}

SelectorLists == UNION {[1..n -> Selectors] : n \in 0..MaxSelectors}

Injective(q) == \A i, j \in 1..Len(q) : q[i] = q[j] => i = j

DistinctSeqs(S, n) ==
    {q \in UNION {[1..k -> S] : k \in 0..n} : Injective(q)}

BuildModelNames == {<<"a">>, <<"b">>}
BuildExploreNames == {<<"x">>, <<"y">>}

BuildListings ==
    UNION {
        {[i \in 1..Len(names) |->
             model_json(names[i], projects[i], explores[i])] :
            projects \in [1..Len(names) -> {ProjectName, OtherProject}],
            explores \in
                {ex \in [1..Len(names) ->
                            DistinctSeqs(BuildExploreNames, MaxExplores)] :
                    SeqSum([i \in 1..Len(names) |-> Len(ex[i])])
                        <= MaxExplores}} :
        names \in DistinctSeqs(BuildModelNames,
                                Cardinality(BuildModelNames))}

BuildDimensions ==
    <<dimension_json(DimensionSeq[2], FALSE),
      dimension_json(DimensionSeq[3], TRUE),
      dimension_json(DimensionSeq[1], FALSE)>>

InitBuild ==
    /\ selectors \in SelectorLists
    /\ batch = TRUE
    /\ concurrency = 1
    /\ models_json \in BuildListings
    /\ dimensions_json =
           [k \in needed_keys(selectors, models_json) |-> BuildDimensions]
    /\ Constructed

(* BuildProject with self.project.models assigned before the selection is  *)
(* resolved: the unfiltered project models stay behind when build raises.  *)
BuildProject_assigns_early ==
    /\ pc = "start"
    /\ LET built == build_project(selectors, models_json, dimensions_json)
           project_models ==
               SelectSeq([i \in 1..Len(models_json) |->
                             Model_from_json(models_json[i])],
                         LAMBDA model : model.project = ProjectName)
       IN  /\ raised' = built.raised
           /\ calls' = built.calls
           /\ IF built.raised.exc = "None"
              THEN models' = built.models /\ pc' = "built"
              ELSE models' = project_models /\ pc' = "build_failed"
    /\ UNCHANGED <<inputs, index, tasks, loop, validation_errors, returned>>

(***************************************************************************)
(* Runner.validate_sql, line 52: sql_validator.build_project(selectors)    *)
(***************************************************************************)
BuildProject ==
    /\ pc = "start"
    /\ LET built == build_project(selectors, models_json, dimensions_json)
       IN  /\ raised' = built.raised
           /\ calls' = built.calls
           /\ IF built.raised.exc = "None"
              THEN models' = built.models /\ pc' = "built"
              ELSE models' = models /\ pc' = "build_failed"
    /\ UNCHANGED <<inputs, index, tasks, loop, validation_errors, returned>>

(* ValidateExplore that does not wait for the explore before: the next     *)
(* explore's tasks are created while the loop still runs the earlier ones. *)
ValidateExplore_no_wait ==
    /\ pc = "built"
    /\ loop \in {"idle", "running"}
    /\ index < _count_explores(models)
    /\ LET position == explore_positions(models)[index + 1]
       IN  tasks' = tasks \o create_tasks(models, index + 1, position[1],
                                           position[2], batch)
    /\ index' = index + 1
    /\ loop' = "running"
    /\ UNCHANGED <<inputs, pc, raised, calls, models, validation_errors,
                   returned>>

(***************************************************************************)
(* validate, lines 199-203 and _validate_explore, lines 162-175: the next  *)
(* explore's tasks are created and the loop starts them.                   *)
(***************************************************************************)
ValidateExplore ==
    /\ pc = "built"
    /\ loop = "idle"
    /\ index < _count_explores(models)
    /\ LET position == explore_positions(models)[index + 1]
       IN  tasks' = tasks \o create_tasks(models, index + 1, position[1],
                                           position[2], batch)
    /\ index' = index + 1
    /\ loop' = "running"
    /\ UNCHANGED <<inputs, pc, raised, calls, models, validation_errors,
                   returned>>

(* A task the loop can still resume. *)
Resumable(t) ==
    /\ pc = "built"
    /\ loop \in {"running", "failed"}
    /\ t \in 1..Len(tasks)
    /\ tasks[t].index = index
    /\ tasks[t].state = "pending"

(***************************************************************************)
(* _query_explore / _query_dimension: the query returned a list.           *)
(***************************************************************************)
QuerySucceeds ==
    \E t \in 1..Len(tasks), result \in ApiResults :
    /\ Resumable(t)
    /\ is_list(result)
    /\ tasks' = [tasks EXCEPT ![t].state = "done", ![t].result = Some(result)]
    /\ UNCHANGED <<inputs, pc, raised, calls, models, index, loop,
                   validation_errors, returned>>

(* QueryFails attaching the error to the next node in order of arrival:    *)
(* the k-th unit of the explore to complete marks the k-th node.           *)
QueryFails_by_arrival ==
    \E t \in 1..Len(tasks), result \in ApiResults :
    /\ Resumable(t)
    /\ ~is_list(result)
    /\ has_errors(result)
    /\ LET current == {u \in 1..Len(tasks) : tasks[u].index = index}
           arrived == {u \in current : tasks[u].state # "pending"}
           first == CHOOSE u \in current : \A v \in current : u <= v
           task == tasks[first + Cardinality(arrived)]
           error == IF task.dimension = 0
                    THEN explore_error(models, task.model, task.explore,
                                       result)
                    ELSE dimension_error(models, task.model, task.explore,
                                         task.dimension, result)
       IN  /\ models' = IF task.dimension = 0
                        THEN mark_explore(models, task.model, task.explore,
                                          error)
                        ELSE mark_dimension(models, task.model, task.explore,
                                            task.dimension, error)
           /\ tasks' = [tasks EXCEPT ![t].state = "done",
                                     ![t].result = Some(result),
                                     ![t].error = Some(error)]
    /\ UNCHANGED <<inputs, pc, raised, calls, index, loop,
                   validation_errors, returned>>

(***************************************************************************)
(* _query_explore / _query_dimension: the query returned errors.           *)
(***************************************************************************)
QueryFails ==
    \E t \in 1..Len(tasks), result \in ApiResults :
    /\ Resumable(t)
    /\ ~is_list(result)
    /\ has_errors(result)
    /\ LET task == tasks[t]
           error == IF task.dimension = 0
                    THEN explore_error(models, task.model, task.explore,
                                       result)
                    ELSE dimension_error(models, task.model, task.explore,
                                         task.dimension, result)
       IN  /\ models' = IF task.dimension = 0
                        THEN mark_explore(models, task.model, task.explore,
                                          error)
                        ELSE mark_dimension(models, task.model, task.explore,
                                            task.dimension, error)
           /\ tasks' = [tasks EXCEPT ![t].state = "done",
                                     ![t].result = Some(result),
                                     ![t].error = Some(error)]
    /\ UNCHANGED <<inputs, pc, raised, calls, index, loop,
                   validation_errors, returned>>

unexpected_api_result(models_, task, result) ==
    LET model == models_[task.model]
        explore == model.explores[task.explore]
    IN  [exc |-> "FonzException",
         raised_in |-> IF task.dimension = 0 THEN "_query_explore"
                       ELSE "_query_dimension",
         path |-> IF task.dimension = 0
                  THEN explore_path(model, explore)
                  ELSE dimension_path(model,
                                      explore.dimensions[task.dimension]),
         result |-> result]

(***************************************************************************)
(* _query_explore / _query_dimension: any other result raises.  gather     *)
(* keeps the first exception; the other tasks are left as they are.        *)
(***************************************************************************)
QueryUnexpected ==
    \E t \in 1..Len(tasks), result \in ApiResults :
    /\ Resumable(t)
    /\ ~is_list(result)
    /\ ~has_errors(result)
    /\ tasks' = [tasks EXCEPT ![t].state = "failed",
                              ![t].result = Some(result)]
    /\ raised' = IF loop = "running"
                 THEN unexpected_api_result(models, tasks[t], result)
                 ELSE raised
    /\ loop' = "failed"
    /\ UNCHANGED <<inputs, pc, calls, models, index, validation_errors,
                   returned>>

current_tasks == SelectSeq(tasks, LAMBDA task : task.index = index)

(***************************************************************************)
(* _validate_explore, lines 175-176 and validate, line 203: every task of  *)
(* the explore returned; their errors are appended in task order.          *)
(***************************************************************************)
GatherReturns ==
    /\ pc = "built"
    /\ loop = "running"
    /\ \A i \in 1..Len(current_tasks) : current_tasks[i].state = "done"
    /\ LET errored_tasks ==
               SelectSeq(current_tasks, LAMBDA task : task.error # None)
       IN  validation_errors' =
               validation_errors \o
               [i \in 1..Len(errored_tasks) |-> errored_tasks[i].error[1]]
    /\ loop' = "idle"
    /\ UNCHANGED <<inputs, pc, raised, calls, models, index, tasks, returned>>

(***************************************************************************)
(* _validate_explore, line 175: run_until_complete re-raises the           *)
(* exception of the gather future; validate does not catch it.             *)
(***************************************************************************)
GatherRaises ==
    /\ pc = "built"
    /\ loop = "failed"
    /\ pc' = "aborted"
    /\ loop' = "stopped"
    /\ UNCHANGED <<inputs, raised, calls, models, index, tasks,
                   validation_errors, returned>>

(***************************************************************************)
(* validate, line 209                                                      *)
(***************************************************************************)
ValidateReturns ==
    /\ pc = "built"
    /\ loop = "idle"
    /\ index = _count_explores(models)
    /\ pc' = "done"
    /\ returned' = Some(validation_errors)
    /\ UNCHANGED <<inputs, raised, calls, models, index, tasks, loop,
                   validation_errors>>

Next ==
    \/ BuildProject
    \/ ValidateExplore
    \/ QuerySucceeds
    \/ QueryFails
    \/ QueryUnexpected
    \/ GatherReturns
    \/ GatherRaises
    \/ ValidateReturns

Spec == Init /\ [][Next]_vars

SpecBuild == InitBuild /\ [][Next]_vars

(* The loop runs every ready callback and the service answers every query. *)
InitFair ==
    /\ selectors = <<AllSelector>>
    /\ batch \in BOOLEAN
    /\ concurrency = 1
    /\ models_json \in ListingsWithin(MaxFairExplores)
    /\ dimensions_json \in
           DimensionListingsWithin(needed_keys(selectors, models_json),
                                   MaxFairDims)
    /\ Constructed

FairSpec == InitFair /\ [][Next]_vars /\ WF_vars(Next)

(***************************************************************************)
(* Vocabulary of the properties.                                           *)
(***************************************************************************)
Positions == Range(explore_positions(models))

ExploreAt(pos) == models[pos[1]].explores[pos[2]]

DimensionsAt(pos) == ExploreAt(pos).dimensions

TasksOf(pos) ==
    {t \in 1..Len(tasks) :
        tasks[t].model = pos[1] /\ tasks[t].explore = pos[2]}

InFlight == {t \in 1..Len(tasks) : tasks[t].state = "pending"}

ProtocolErrorFired == loop \in {"failed", "stopped"}

(* A task left the pending state in this step with an error payload. *)
Classified(t) ==
    /\ tasks[t].state = "pending"
    /\ tasks'[t].state = "done"
    /\ tasks'[t].error # None

(***************************************************************************)
(* C1: with a concurrency bound K, the number of query units submitted and *)
(* not yet completed never exceeds K.                                      *)
(***************************************************************************)
C1_InFlightWithinBound == Cardinality(InFlight) <= concurrency

(***************************************************************************)
(* C2: once a query unit has raised the protocol error, every other unit   *)
(* is cancelled: no unit stays in flight after the abort, no node flag is  *)
(* raised and no SqlError is created from then on.                         *)
(***************************************************************************)
C2_NothingAfterProtocolError ==
    [][ProtocolErrorFired =>
          /\ models' = models
          /\ \A t \in 1..Len(tasks) : tasks'[t].error = tasks[t].error
          /\ (pc' = "aborted" => InFlight = {})]_vars

(***************************************************************************)
(* C3: when every response is a success or an error payload, validate does *)
(* not abort, issues every unit, terminates, and returns one SqlError per  *)
(* unit that got an error payload, built from the payload's first error,   *)
(* and none for the others.                                                *)
(***************************************************************************)
AnsweredWithErrors ==
    SelectSeq(tasks, LAMBDA task :
        task.result # None /\ task.result[1].type = "dict"
        /\ task.result[1].errors # <<>>)

NoUnexpectedResult ==
    \A t \in 1..Len(tasks) :
        tasks[t].result # None =>
            \/ tasks[t].result[1].type = "list"
            \/ tasks[t].result[1].type = "dict"
               /\ tasks[t].result[1].errors # <<>>

UnitsOfHierarchy ==
    IF batch
    THEN {<<pos[1], pos[2], 0>> : pos \in Positions}
    ELSE UNION {{<<pos[1], pos[2], d>> : d \in 1..Len(DimensionsAt(pos))} :
                   pos \in Positions}

UnitsIssued ==
    {<<tasks[t].model, tasks[t].explore, tasks[t].dimension>> :
        t \in 1..Len(tasks)}

C3_Complete ==
    /\ NoUnexpectedResult => pc # "aborted" /\ ~ProtocolErrorFired
    /\ pc = "done" /\ NoUnexpectedResult =>
          /\ UnitsIssued = UnitsOfHierarchy
          /\ \A t \in 1..Len(tasks) : tasks[t].result # None
          /\ Len(returned[1]) = Len(AnsweredWithErrors)
          /\ \A i \in 1..Len(returned[1]) :
                LET first == AnsweredWithErrors[i].result[1].errors[1]
                IN  /\ returned[1][i].message = first.message_details
                    /\ returned[1][i].sql = AnsweredWithErrors[i].result[1].sql
                    /\ returned[1][i] = AnsweredWithErrors[i].error[1]

C4_UnitsIssuedOnce ==
    /\ Cardinality(UnitsIssued) = Len(tasks)
    /\ pc = "done" =>
          /\ UnitsIssued = UnitsOfHierarchy
          /\ Len(tasks) = IF batch THEN Cardinality(Positions)
                          ELSE SeqSum([i \in 1..Len(explore_positions(models)) |->
                                   Len(DimensionsAt(explore_positions(models)[i]))])
          /\ \A t \in 1..Len(tasks) :
                LET dimensions ==
                        DimensionsAt(<<tasks[t].model, tasks[t].explore>>)
                IN  tasks[t].dimensions =
                        IF batch
                        THEN [d \in 1..Len(dimensions) |-> dimensions[d].name]
                        ELSE <<dimensions[tasks[t].dimension].name>>

C4_Witness ==
    /\ pc = "done"
    /\ ~batch
    /\ Len(tasks) >= 3
    /\ Cardinality(Positions) >= 2

(***************************************************************************)
(* C5: in per-dimension mode a unit that returns an error payload sets     *)
(* errored on its dimension, its explore and its model, attaches the error *)
(* to the dimension only and leaves every other node as it was.            *)
(***************************************************************************)
C5_PerDimensionFrame ==
    [][~batch =>
          \A t \in 1..Len(tasks) :
              Classified(t) =>
                  LET m == tasks[t].model
                      e == tasks[t].explore
                      d == tasks[t].dimension
                      before == models[m].explores[e]
                      after == models'[m].explores[e]
                  IN  /\ models'[m].errored
                      /\ after.errored
                      /\ after.dimensions[d].errored
                      /\ after.dimensions[d].error = tasks'[t].error
                      /\ after.error = before.error
                      /\ Len(models') = Len(models)
                      /\ \A m2 \in 1..Len(models) :
                            m2 # m => models'[m2] = models[m2]
                      /\ Len(models'[m].explores) = Len(models[m].explores)
                      /\ \A e2 \in 1..Len(models[m].explores) :
                            e2 # e => models'[m].explores[e2]
                                          = models[m].explores[e2]
                      /\ Len(after.dimensions) = Len(before.dimensions)
                      /\ \A d2 \in 1..Len(before.dimensions) :
                            d2 # d => after.dimensions[d2]
                                          = before.dimensions[d2]]_vars

C5_Witness ==
    /\ ~batch
    /\ \E pos \in Positions :
          /\ \E d \in 1..Len(DimensionsAt(pos)) : DimensionsAt(pos)[d].errored
          /\ \E d \in 1..Len(DimensionsAt(pos)) :
                ~DimensionsAt(pos)[d].errored
          /\ \A t \in TasksOf(pos) : tasks[t].state = "done"
    /\ \E pos \in Positions : ~ExploreAt(pos).errored /\ TasksOf(pos) # {}

(***************************************************************************)
(* C6: in batch mode a failing query on an explore yields exactly one      *)
(* SqlError with path "model/explore", attached to the explore; errored is *)
(* set on the explore and its model and on none of its dimensions.         *)
(***************************************************************************)
Occurrences(q, x) == Cardinality({i \in 1..Len(q) : q[i] = x})

C6_BatchError ==
    batch =>
        \A pos \in Positions :
            LET model == models[pos[1]]
                explore == ExploreAt(pos)
            IN  /\ \A d \in 1..Len(explore.dimensions) :
                      /\ ~explore.dimensions[d].errored
                      /\ explore.dimensions[d].error = None
                /\ explore.errored <=> explore.error # None
                /\ explore.errored <=>
                      \E t \in TasksOf(pos) :
                          tasks[t].result # None
                          /\ tasks[t].result[1].errors # <<>>
                /\ explore.errored =>
                      /\ model.errored
                      /\ explore.error[1].path
                             = model.name \o <<"/">> \o explore.name
                      /\ Occurrences(validation_errors, explore.error[1]) <= 1
                      /\ pc = "done" =>
                            Occurrences(returned[1], explore.error[1]) = 1

C6_Witness ==
    /\ batch
    /\ pc = "done"
    /\ \E pos \in Positions :
          ExploreAt(pos).errored /\ Len(DimensionsAt(pos)) = 3

(***************************************************************************)
(* C7: a model is errored iff one of its explores is; an explore is        *)
(* errored iff its batch query or one of its dimensions' queries produced  *)
(* an error; an errored flag that is true never becomes false.             *)
(***************************************************************************)
C7_Flags ==
    \A m \in 1..Len(models) :
        /\ models[m].errored <=>
              \E e \in 1..Len(models[m].explores) :
                  models[m].explores[e].errored
        /\ \A e \in 1..Len(models[m].explores) :
              LET explore == models[m].explores[e]
              IN  /\ explore.errored <=>
                        \E t \in TasksOf(<<m, e>>) : tasks[t].error # None
                  /\ explore.errored <=>
                        \/ explore.error # None
                        \/ \E d \in 1..Len(explore.dimensions) :
                               explore.dimensions[d].errored
                  /\ \A d \in 1..Len(explore.dimensions) :
                        explore.dimensions[d].errored <=>
                            \E t \in TasksOf(<<m, e>>) :
                                tasks[t].dimension = d /\ tasks[t].error # None

C7_Monotone ==
    \A m \in 1..Len(models) :
        /\ models[m].errored => models'[m].errored
        /\ \A e \in 1..Len(models[m].explores) :
              /\ models[m].explores[e].errored
                     => models'[m].explores[e].errored
              /\ \A d \in 1..Len(models[m].explores[e].dimensions) :
                    models[m].explores[e].dimensions[d].errored
                        => models'[m].explores[e].dimensions[d].errored

C7_ErroredPropagates == []C7_Flags /\ [][C7_Monotone]_vars

C7_Witness ==
    /\ ~batch
    /\ Len(models) = 2
    /\ models[1].errored
    /\ ~models[2].errored
    /\ Len(tasks) >= 2
    /\ \A t \in 1..Len(tasks) : tasks[t].state = "done"

(***************************************************************************)
(* C8: a dimension listed with ignore = true is in no explore of the built *)
(* hierarchy, is named by no query unit and gets no SqlError.              *)
(***************************************************************************)
IgnoredNames(key) ==
    IF key \in DOMAIN dimensions_json
    THEN {dimensions_json[key][i].name :
             i \in {j \in 1..Len(dimensions_json[key]) :
                       dimensions_json[key][j].ignore}}
    ELSE {}

KeyOf(pos) == <<models[pos[1]].name, ExploreAt(pos).name>>

C8_IgnoredNeverValidated ==
    \A pos \in Positions :
        /\ \A d \in 1..Len(DimensionsAt(pos)) :
              /\ ~DimensionsAt(pos)[d].ignore
              /\ DimensionsAt(pos)[d].name \notin IgnoredNames(KeyOf(pos))
        /\ \A t \in TasksOf(pos) :
              Range(tasks[t].dimensions) \cap IgnoredNames(KeyOf(pos)) = {}
        /\ \A t \in TasksOf(pos) :
              tasks[t].error # None /\ tasks[t].dimension # 0 =>
                  DimensionsAt(pos)[tasks[t].dimension].name
                      \notin IgnoredNames(KeyOf(pos))

C8_Witness ==
    /\ pc = "done"
    /\ Len(validation_errors) >= 1
    /\ \E pos \in Positions :
          /\ IgnoredNames(KeyOf(pos)) # {}
          /\ Len(DimensionsAt(pos)) >= 1
          /\ TasksOf(pos) # {}

(***************************************************************************)
(* C9: parse accepts a selector only if it splits on '.' into exactly two  *)
(* non-empty tokens; any other shape fails with the selector error naming  *)
(* the selector, and no selection is used.                                 *)
(***************************************************************************)
TwoNonEmptyTokens(selector) ==
    /\ Cardinality({i \in 1..Len(selector) : selector[i] = "."}) = 1
    /\ selector[1] # "."
    /\ selector[Len(selector)] # "."

Malformed == {i \in 1..Len(selectors) : ~TwoNonEmptyTokens(selectors[i])}

C9_MalformedSelectorRejected ==
    pc # "start" /\ Malformed # {} =>
        /\ raised.exc = "FonzException"
        /\ raised.raised_in = "parse_selectors"
        /\ \E i \in Malformed : raised.selector = selectors[i]
        /\ models = <<>>

(***************************************************************************)
(* C10: if after wildcard expansion a chosen model name, or a chosen       *)
(* explore name of a chosen model, is not among the available names, build *)
(* fails with the selection error listing every missing name of that       *)
(* level, also when no model or no explore is available at all.            *)
(***************************************************************************)
ProjectModels ==
    SelectSeq(models_json, LAMBDA model : model.project = ProjectName)

ModelTokens == {split(selectors[i], ".")[1] : i \in 1..Len(selectors)}

ExploreTokens(model) ==
    {split(selectors[i], ".")[2] :
        i \in {j \in 1..Len(selectors) :
                  split(selectors[j], ".")[1] \in {model, Star}}}

MissingModels == (ModelTokens \ {Star}) \ names_of(ProjectModels)

MissingExplores(i) ==
    (ExploreTokens(ProjectModels[i].name) \ {Star})
        \ Range(ProjectModels[i].explores)

Chosen(i) == Star \in ModelTokens \/ ProjectModels[i].name \in ModelTokens

FirstIncomplete ==
    {i \in 1..Len(ProjectModels) :
        /\ Chosen(i) /\ MissingExplores(i) # {}
        /\ \A j \in 1..(i - 1) : ~(Chosen(j) /\ MissingExplores(j) # {})}

SelectionErrorListing(names) ==
    /\ raised.exc = "FonzException"
    /\ raised.raised_in = "_select"
    /\ raised.names = names

C10_MissingNamesListed ==
    pc # "start" /\ Malformed = {} =>
        /\ MissingModels # {} => SelectionErrorListing(MissingModels)
        /\ MissingModels = {} =>
              \A i \in FirstIncomplete :
                  SelectionErrorListing(MissingExplores(i))

(***************************************************************************)
(* C11: when build fails with the selector error or the selection error,   *)
(* at the model level or at the explore level of any chosen model, the     *)
(* project's model list is as it was before the build (empty), no part of  *)
(* the hierarchy is visible and no query unit is dispatched in that run.   *)
(***************************************************************************)
BuildRaised ==
    /\ pc = "build_failed"
    /\ raised.exc = "FonzException"
    /\ raised.raised_in \in {"parse_selectors", "_select"}

C11_FailedBuildLeavesNothing ==
    BuildRaised =>
        /\ models = <<>>
        /\ tasks = <<>>
        /\ index = 0
        /\ validation_errors = <<>>
        /\ returned = None

(* The explore level of a model processed after another one has failed. *)
C11_Witness ==
    /\ BuildRaised
    /\ raised.raised_in = "_select"
    /\ raised.class = "Explore"
    /\ \E i \in 1..Len(calls) : calls[i].op = "get_dimensions"
    /\ models = <<>>
    /\ tasks = <<>>

(***************************************************************************)
(* C12: if any selector of the list is malformed, at whatever position,    *)
(* the selector error is raised before any call to the service: no model   *)
(* listing, no dimension listing and no query happens in that run.         *)
(***************************************************************************)
C12_NoCallBeforeSelectorError ==
    pc # "start" /\ Malformed # {} =>
        /\ pc = "build_failed"
        /\ calls = <<>>
        /\ tasks = <<>>

(* What holds instead: a selector parse_selectors rejects costs no call. *)
C12_RejectedSelectorCostsNoCall ==
    raised.exc = "FonzException" /\ raised.raised_in = "parse_selectors" =>
        /\ pc = "build_failed"
        /\ calls = <<>>
        /\ tasks = <<>>

(***************************************************************************)
(* C13: for a chosen model whose selection contains the explore wildcard,  *)
(* the explores selected by a successful build are exactly the explores    *)
(* listed for that model, whatever explicit names the selection also has,  *)
(* and the wildcard is never reported as a missing explore.                *)
(***************************************************************************)
BuiltModel(name) == {m \in 1..Len(models) : models[m].name = name}

WildcardModels ==
    {i \in 1..Len(ProjectModels) :
        Chosen(i) /\ Star \in ExploreTokens(ProjectModels[i].name)}

C13_ExploreWildcardSelectsAll ==
    /\ pc = "built" =>
          \A i \in WildcardModels :
              /\ Cardinality(BuiltModel(ProjectModels[i].name)) = 1
              /\ \A m \in BuiltModel(ProjectModels[i].name) :
                    /\ names_of(models[m].explores)
                           = Range(ProjectModels[i].explores)
                    /\ Len(models[m].explores)
                           = Len(ProjectModels[i].explores)
    /\ raised.exc = "FonzException" /\ raised.raised_in = "_select" =>
          (raised.class = "Explore" => Star \notin raised.names)

(* "a.*" together with "a.x", or "*.x" with "a.*", against explores x, y. *)
C13_Witness ==
    /\ pc = "built"
    /\ \E i \in WildcardModels :
          /\ ExploreTokens(ProjectModels[i].name) \ {Star} # {}
          /\ Len(ProjectModels[i].explores) = 2
          /\ \E m \in BuiltModel(ProjectModels[i].name) :
                Len(models[m].explores) = 2

(***************************************************************************)
(* C14: with the model-level wildcard among the selectors, its explore     *)
(* names are added to the selection of every listed model of the project,  *)
(* beside the model's explicit selection: a successful build has every     *)
(* project model, each with the explores named for it explicitly or by     *)
(* the wildcard, and the wildcard is never reported as a missing model.    *)
(***************************************************************************)
ExpectedExplores(i) ==
    IF Star \in ExploreTokens(ProjectModels[i].name)
    THEN Range(ProjectModels[i].explores)
    ELSE ExploreTokens(ProjectModels[i].name)

C14_ModelWildcardSelectsAll ==
    /\ pc = "built" /\ Star \in ModelTokens =>
          /\ Len(models) = Len(ProjectModels)
          /\ \A i \in 1..Len(ProjectModels) :
                /\ models[i].name = ProjectModels[i].name
                /\ names_of(models[i].explores) = ExpectedExplores(i)
    /\ raised.exc = "FonzException" /\ raised.raised_in = "_select" =>
          (raised.class = "Model" => Star \notin raised.names)

(* "*.x" with "a.y": model a keeps both x and y. *)
C14_Witness ==
    /\ pc = "built"
    /\ Star \in ModelTokens
    /\ \E i \in 1..Len(ProjectModels) :
          /\ ProjectModels[i].name \in ModelTokens
          /\ Star \notin ExploreTokens(ProjectModels[i].name)
          /\ Len(models[i].explores) = 2

(***************************************************************************)
(* C15: parse is order-independent and duplicate-absorbing: for a list of  *)
(* well-formed selectors, every permutation of the list and every list     *)
(* obtained by repeating one of its selectors gives the same mapping from  *)
(* model names to explore name sets.  Stated of the selectors of the run,  *)
(* in the state build_project leaves.                                      *)
(***************************************************************************)
Rearrangements(q) ==
    {[i \in 1..Len(q) |-> q[p[i]]] :
        p \in {f \in [1..Len(q) -> 1..Len(q)] : Injective(f)}}

Repetitions(q) ==
    {SubSeq(q, 1, j - 1) \o <<q[i]>> \o SubSeq(q, j, Len(q)) :
        i \in 1..Len(q), j \in 1..(Len(q) + 1)}

C15_ParseDependsOnSelectorSet ==
    pc # "start" /\ index = 0 /\ Malformed = {} =>
        /\ raised.exc = "FonzException" => raised.raised_in # "parse_selectors"
        /\ LET parsed == parse_selectors(selectors)
           IN  \A other \in Rearrangements(selectors)
                              \cup Repetitions(selectors) :
                   parse_selectors(other) = parsed

(* Two selectors of one model, whose explore names parse has to merge. *)
C15_Witness ==
    /\ pc # "start"
    /\ index = 0
    /\ Malformed = {}
    /\ Len(selectors) = 2
    /\ selectors[1] # selectors[2]
    /\ split(selectors[1], ".")[1] = split(selectors[2], ".")[1]
    /\ raised.exc = "None"
    /\ Cardinality(parse_selectors(selectors).selection[
                       split(selectors[1], ".")[1]]) = 2

(***************************************************************************)
(* C16: within one run, no two SqlErrors produced by different nodes       *)
(* (different explores in batch mode, different explore and dimension      *)
(* pairs in per-dimension mode) carry the same path.                       *)
(***************************************************************************)
NodeOf(t) == <<tasks[t].model, tasks[t].explore, tasks[t].dimension>>

ErroredTasks == {t \in 1..Len(tasks) : tasks[t].error # None}

C16_PathIdentifiesNode ==
    \A t1, t2 \in ErroredTasks :
        NodeOf(t1) # NodeOf(t2) =>
            tasks[t1].error[1].path # tasks[t2].error[1].path

(* What holds instead: the paths of batch mode identify the explore. *)
C16_BatchPathIdentifiesExplore ==
    batch => C16_PathIdentifiesNode

(***************************************************************************)
(* C17: attribution is independent of completion order: when the pass      *)
(* ends without protocol error, each error sits on the node whose own      *)
(* query returned it, and the hierarchy and the returned list, ordered by  *)
(* explore and within an explore by dimension, are determined by what each *)
(* query returned, whatever the order in which the queries completed.      *)
(***************************************************************************)
UnitFailed(t) == tasks[t].result # None /\ has_errors(tasks[t].result[1])

UnitNode(t) ==
    IF tasks[t].dimension = 0
    THEN models[tasks[t].model].explores[tasks[t].explore]
    ELSE models[tasks[t].model].explores[tasks[t].explore]
             .dimensions[tasks[t].dimension]

(* error is the one built from the payload that unit t itself received. *)
Attributed(error, t) ==
    /\ error.path = models[tasks[t].model].name \o <<"/">> \o UnitNode(t).name
    /\ error.message = tasks[t].result[1].errors[1].message_details
    /\ error.sql = tasks[t].result[1].sql

FailedInOrder ==
    SelectSeq([t \in 1..Len(tasks) |-> t], LAMBDA t : UnitFailed(t))

C17_OutcomeFromOwnResults ==
    /\ \A t \in 1..Len(tasks) :
          /\ UnitNode(t).errored = UnitFailed(t)
          /\ UnitFailed(t) =>
                /\ UnitNode(t).error # None
                /\ Attributed(UnitNode(t).error[1], t)
                /\ tasks[t].error = UnitNode(t).error
          /\ ~UnitFailed(t) => UnitNode(t).error = None
    /\ pc = "done" =>
          /\ \A t1, t2 \in 1..Len(tasks) :
                t1 < t2 =>
                    \/ tasks[t1].index < tasks[t2].index
                    \/ /\ tasks[t1].index = tasks[t2].index
                       /\ tasks[t1].dimension < tasks[t2].dimension
          /\ \A pos \in Positions :
                /\ ExploreAt(pos).errored =
                       (\E t \in TasksOf(pos) : UnitFailed(t))
                /\ ~batch => ExploreAt(pos).error = None
                /\ batch =>
                      \A d \in 1..Len(DimensionsAt(pos)) :
                          /\ ~DimensionsAt(pos)[d].errored
                          /\ DimensionsAt(pos)[d].error = None
          /\ \A m \in 1..Len(models) :
                models[m].errored =
                    (\E t \in 1..Len(tasks) :
                        tasks[t].model = m /\ UnitFailed(t))
          /\ Len(returned[1]) = Len(FailedInOrder)
          /\ \A i \in 1..Len(FailedInOrder) :
                Attributed(returned[1][i], FailedInOrder[i])

(* Two dimensions of one explore whose queries returned different errors. *)
C17_Witness ==
    /\ pc = "done"
    /\ ~batch
    /\ \E t1, t2 \in 1..Len(tasks) :
          /\ t1 < t2
          /\ tasks[t1].index = tasks[t2].index
          /\ UnitFailed(t1)
          /\ UnitFailed(t2)
          /\ tasks[t1].result # tasks[t2].result
          /\ UnitNode(t1).error # UnitNode(t2).error
    /\ Len(returned[1]) >= 2

(***************************************************************************)
(* C18: the built hierarchy preserves listing order: the project's models, *)
(* each model's explores and each explore's dimensions appear in the       *)
(* relative order in which the listing calls returned them, whatever the   *)
(* order in which the selectors named them.                                *)
(***************************************************************************)
PositionIn(q, x) == CHOOSE k \in 1..Len(q) : q[k] = x

(* Every name of built is in listed, in the same relative order. *)
InListingOrder(built, listed) ==
    /\ Range(built) \subseteq Range(listed)
    /\ \A i, j \in 1..Len(built) :
          i < j => PositionIn(listed, built[i]) < PositionIn(listed, built[j])

NamesOf(nodes) == [i \in 1..Len(nodes) |-> nodes[i].name]

C18_ListingOrderPreserved ==
    pc # "start" /\ raised.exc = "None" =>
        /\ InListingOrder(NamesOf(models), NamesOf(models_json))
        /\ \A m \in 1..Len(models) :
              /\ InListingOrder(
                     NamesOf(models[m].explores),
                     models_json[PositionIn(NamesOf(models_json),
                                            models[m].name)].explores)
              /\ \A e \in 1..Len(models[m].explores) :
                    InListingOrder(
                        NamesOf(models[m].explores[e].dimensions),
                        NamesOf(dimensions_json[
                                    <<models[m].name,
                                      models[m].explores[e].name>>]))

(* Explores listed as y, x and named by the selectors as x, then y. *)
C18_Witness ==
    /\ pc = "built"
    /\ Len(selectors) = 2
    /\ split(selectors[1], ".")[2] = <<"x">>
    /\ split(selectors[2], ".")[2] = <<"y">>
    /\ \E m \in 1..Len(models) :
          /\ NamesOf(models[m].explores) = << <<"y">>, <<"x">> >>
          /\ Len(models[m].explores[1].dimensions) = 2

(***************************************************************************)
(* C19: a SqlError built from an error payload has line_number equal to    *)
(* the line of the sql_error_loc of the payload's first error minus one    *)
(* (42 gives 41), and no line number when that error has no sql_error_loc. *)
(***************************************************************************)
FirstError(t) == tasks[t].result[1].errors[1]

C19_LineNumberCorrectedOnce ==
    /\ \A t \in ErroredTasks :
          /\ FirstError(t).sql_error_loc = None =>
                tasks[t].error[1].line_number = None
          /\ FirstError(t).sql_error_loc # None =>
                /\ tasks[t].error[1].line_number # None
                /\ tasks[t].error[1].line_number[1] + 1
                       = FirstError(t).sql_error_loc[1].line
          /\ FirstError(t) = error_1 =>
                tasks[t].error[1].line_number = Some(41)
          /\ UnitNode(t).error = tasks[t].error
    /\ \A i \in 1..Len(validation_errors) :
          \E t \in ErroredTasks : validation_errors[i] = tasks[t].error[1]

(* One returned error with line 41 and one without line number. *)
C19_Witness ==
    /\ pc = "done"
    /\ \E i, j \in 1..Len(returned[1]) :
          /\ returned[1][i].line_number = Some(41)
          /\ returned[1][j].line_number = None
    /\ \E t \in ErroredTasks : FirstError(t).sql_error_loc = Some([line |-> 42])
    /\ \E t \in ErroredTasks : FirstError(t).sql_error_loc = None

(***************************************************************************)
(* C20: during a validation pass every hierarchy node is written by at     *)
(* most one query-unit task: no two tasks in flight at the same time write *)
(* a field (error or errored) of the same dimension, explore or model.     *)
(***************************************************************************)
(* The fields task t has assigned: those of its classification step. *)
Writes(t) ==
    IF tasks[t].error = None THEN {}
    ELSE IF tasks[t].dimension = 0
         THEN explore_writes(tasks[t].model, tasks[t].explore)
         ELSE dimension_writes(tasks[t].model, tasks[t].explore,
                               tasks[t].dimension)

NodesWritten(t) ==
    {[kind |-> w.kind, model |-> w.model, explore |-> w.explore,
      dimension |-> w.dimension] : w \in Writes(t)}

(* The tasks of one explore are created together and gathered together. *)
InFlightTogether(t1, t2) == t1 # t2 /\ tasks[t1].index = tasks[t2].index

C20_SingleWriterPerNode ==
    \A t1, t2 \in 1..Len(tasks) :
        InFlightTogether(t1, t2) => NodesWritten(t1) \cap NodesWritten(t2) = {}

(***************************************************************************)
(* C20 as amended: the error and errored fields of a dimension and the     *)
(* error field of an explore are written by one task only, the node's own  *)
(* unit; the errored flag of an explore and of a model is written by every *)
(* failing unit beneath it, also by units in flight together, and every    *)
(* such write sets it to true.  Nothing else writes to the hierarchy.      *)
(***************************************************************************)
AncestorFlag(w) == w.field = "errored" /\ w.kind \in {"explore", "model"}

FieldValue(w) ==
    IF w.kind = "model" THEN models[w.model][w.field]
    ELSE IF w.kind = "explore"
         THEN models[w.model].explores[w.explore][w.field]
         ELSE models[w.model].explores[w.explore]
                  .dimensions[w.dimension][w.field]

AllFields ==
    UNION {
        {node_field("model", m, 0, 0, "errored")}
        \cup UNION {
            {node_field("explore", m, e, 0, "errored"),
             node_field("explore", m, e, 0, "error")}
            \cup UNION {
                {node_field("dimension", m, e, d, "errored"),
                 node_field("dimension", m, e, d, "error")} :
                d \in 1..Len(models[m].explores[e].dimensions)} :
            e \in 1..Len(models[m].explores)} :
        m \in 1..Len(models)}

IsSet(w) ==
    IF w.field = "errored" THEN FieldValue(w) ELSE FieldValue(w) # None

C20_SingleWriterOfOwnFields ==
    /\ \A t1, t2 \in 1..Len(tasks) :
          t1 # t2 =>
              \A w \in Writes(t1) \cap Writes(t2) : AncestorFlag(w)
    /\ \A t \in 1..Len(tasks) :
          \A w \in Writes(t) :
              /\ w \in AllFields
              /\ w.field = "errored" => FieldValue(w) = TRUE
              /\ w.field = "error" => FieldValue(w) = tasks[t].error
    /\ \A w \in AllFields :
          IsSet(w) => \E t \in 1..Len(tasks) : w \in Writes(t)

(* Two units of one explore in flight together have both written. *)
C20_Witness ==
    \E t1, t2 \in 1..Len(tasks) :
        /\ InFlightTogether(t1, t2)
        /\ Writes(t1) # {}
        /\ Writes(t2) # {}
        /\ Writes(t1) \cap Writes(t2) # {}
        /\ \A w \in Writes(t1) \cap Writes(t2) : FieldValue(w) = TRUE

(***************************************************************************)
(* C21: explores are validated one at a time in hierarchy order: all query *)
(* units of an explore have completed before its pass/fail state is        *)
(* reported and before any unit of the next explore is submitted, units of *)
(* two explores are never in flight together, and once an explore's state  *)
(* has been reported its errored flag does not change.                     *)
(***************************************************************************)
(* _validate_explore has returned for the k-th explore. *)
Reported(k) == k >= 1 /\ (k < index \/ (k = index /\ loop = "idle"))

C21_OneAtATime ==
    /\ \A t \in 1..Len(tasks) :
          /\ tasks[t].index \in 1..index
          /\ <<tasks[t].model, tasks[t].explore>>
                 = explore_positions(models)[tasks[t].index]
          /\ tasks[t].state = "pending" => tasks[t].index = index
          /\ Reported(tasks[t].index) => tasks[t].state = "done"
    /\ \A t1, t2 \in InFlight : tasks[t1].index = tasks[t2].index
    /\ \A t1, t2 \in 1..Len(tasks) :
          t1 < t2 => tasks[t1].index <= tasks[t2].index

C21_ReportedIsFinal ==
    \A k \in 1..index :
        Reported(k) =>
            /\ Reported(k)'
            /\ ExploreAt(explore_positions(models)[k])'
                   = ExploreAt(explore_positions(models)[k])

C21_ExploresInTurn == []C21_OneAtATime /\ [][C21_ReportedIsFinal]_vars

(* A pass over two explores, the first of which was reported as failed. *)
C21_Witness ==
    /\ pc = "done"
    /\ index >= 2
    /\ ExploreAt(explore_positions(models)[1]).errored
    /\ \E t1, t2 \in 1..Len(tasks) :
          /\ tasks[t1].index = 1
          /\ tasks[t2].index = 2
          /\ tasks[t1].error # None
          /\ tasks[t2].state = "done"

(***************************************************************************)
(* C22: only models of the target project can enter the hierarchy: a       *)
(* selector naming a model the service lists under another project fails   *)
(* the build with the selection error, as a nonexistent model does, and    *)
(* the model-level wildcard never selects a model of another project.      *)
(***************************************************************************)
ForeignNames ==
    {models_json[i].name :
        i \in {j \in 1..Len(models_json) :
                  models_json[j].project # ProjectName}}
        \ names_of(ProjectModels)

NamedForeign == ModelTokens \cap ForeignNames

C22_OnlyTargetProject ==
    pc # "start" /\ Malformed = {} =>
        /\ \A m \in 1..Len(models) :
              /\ models[m].project = ProjectName
              /\ models[m].name \in names_of(ProjectModels)
        /\ NamedForeign # {} =>
              /\ pc = "build_failed"
              /\ raised.exc = "FonzException"
              /\ raised.raised_in = "_select"
              /\ raised.class = "Model"
              /\ NamedForeign \subseteq raised.names

(* What holds instead: the models of another project make no difference   *)
(* to the build, which ends as it does for the project's own listing.      *)
C22_ForeignModelsMakeNoDifference ==
    pc # "start" /\ index = 0 =>
        LET alone == build_project(selectors, ProjectModels, dimensions_json)
        IN  /\ raised = alone.raised
            /\ raised.exc = "None" => models = alone.models
            /\ \A m \in 1..Len(models) : models[m].project = ProjectName

====
